---- MODULE Spec2Model ----
(***************************************************************************)
(* WeightedRandomItemSampler: the constructor (validation and prefix-sum   *)
(* pre-processing) and sample() with its binary search, as a state         *)
(* machine.                                                                *)
(*                                                                         *)
(* Numbers are JavaScript numbers.  A number is a record [k, v]: k = "fin" *)
(* is the finite value v, counted in units of an arbitrary grid step (the  *)
(* code only adds and compares numbers, which is independent of the unit); *)
(* k = "inf" is +Infinity (v = 1) or -Infinity (v = -1); k = "nan" is NaN; *)
(* k = "undef" is the value of a field that was never assigned.  Sums of   *)
(* finite values are exact: the rounding of IEEE-754 additions is not      *)
(* modelled.  Array indices are 0-based as in the source; a TLA+ sequence  *)
(* holds element i at position i + 1.                                      *)
(***************************************************************************)
EXTENDS Integers, Sequences, FiniteSets, TLC

\* ------------------------------------------------------------------ bounds
MaxItems == 3
MaxFiniteWeight == 2
NumCallers == 2

\* ------------------------------------------------------- JavaScript numbers
Fin(n) == [k |-> "fin", v |-> n]
NaN == [k |-> "nan", v |-> 0]
PosInf == [k |-> "inf", v |-> 1]
NegInf == [k |-> "inf", v |-> -1]
Undefined == [k |-> "undef", v |-> 0]
Zero == Fin(0)

IsFinite(a) == a.k = "fin"

\* ToNumber(undefined) is NaN, so an unassigned value compares like NaN.
IsNaN(a) == a.k \in {"nan", "undef"}

\* Variant of Leq: the strict comparison a < b in its place.
LeqAsStrict(a, b) ==
    IF a.k \in {"nan", "undef"} \/ b.k \in {"nan", "undef"} THEN FALSE
    ELSE IF a.k = b.k THEN a.v < b.v
    ELSE IF a.k = "inf" THEN a.v < 0
    ELSE b.v > 0

\* a <= b of JavaScript: false as soon as one side is NaN.
Leq(a, b) ==
    IF IsNaN(a) \/ IsNaN(b) THEN FALSE
    ELSE IF a.k = b.k THEN a.v <= b.v
    ELSE IF a.k = "inf" THEN a.v < 0
    ELSE b.v > 0

\* Variant of Lt: the non-strict comparison a <= b in its place.
LtAsLeq(a, b) == Leq(a, b)

\* a < b of JavaScript: false as soon as one side is NaN.
Lt(a, b) ==
    IF IsNaN(a) \/ IsNaN(b) THEN FALSE
    ELSE IF a.k = b.k THEN a.v < b.v
    ELSE IF a.k = "inf" THEN a.v < 0
    ELSE b.v > 0

\* a + b of JavaScript.
Add(a, b) ==
    IF IsNaN(a) \/ IsNaN(b) THEN NaN
    ELSE IF a.k = "inf" /\ b.k = "inf" THEN (IF a.v = b.v THEN a ELSE NaN)
    ELSE IF a.k = "inf" THEN a
    ELSE IF b.k = "inf" THEN b
    ELSE Fin(a.v + b.v)

\* arr[i] of JavaScript, i 0-based: undefined outside the array.
ReadNumber(arr, i) == IF i \in 0..(Len(arr) - 1) THEN arr[i + 1] ELSE Undefined
ReadItem(arr, i) == IF i \in 0..(Len(arr) - 1) THEN arr[i + 1] ELSE "undefined"

\* ------------------------------------------------------------------ inputs
ItemPool == <<"A", "B", "C", "D", "E", "F">>
Callers == 1..NumCallers

\* The items arrays a caller passes: 0..MaxItems opaque values.
ItemLists == {SubSeq(ItemPool, 1, n) : n \in 0..MaxItems}

\* The weights a caller passes: negative, zero, positive and non-finite.
WeightValues == {Fin(n) : n \in (-1)..MaxFiniteWeight} \cup {NaN, PosInf, NegInf}

\* The weights arrays a caller passes: up to one more weight than items.
WeightLists == UNION {[1..m -> WeightValues] : m \in 0..(MaxItems + 1)}

\* ------------------------------------------------------------------- state
VARIABLES
    items,              \* constructor argument
    respectiveWeights,  \* constructor argument
    cpc,                \* constructor position: "new", "loop", "ready", "thrown"
    currIndex,          \* constructor local: position of the for-of iterator
    ascRangeEnds,       \* constructor local
    weightsPrefixSum,   \* constructor local
    error,              \* the Error thrown by the constructor, or NoError
    _items,             \* field this._items (<<>> while unassigned)
    _ascRangeEnds,      \* field this._ascRangeEnds (<<>> while unassigned)
    _lastRangeEnd,      \* field this._lastRangeEnd (Undefined while unassigned)
    spc,                \* per caller: "idle", "search", "returned"
    pointInRange,       \* per caller: argument of _findCorrespondingRangeIndex
    rangeIndex,         \* per caller: local of _findCorrespondingRangeIndex
    left,               \* per caller: local of _findCorrespondingRangeIndex
    right,              \* per caller: local of _findCorrespondingRangeIndex
    sampled,            \* per caller: the item sample() returned
    iterations          \* per caller: while-loop iterations of the current
                        \* search (a counter of the model, not of the code)

ctorVars == <<items, respectiveWeights, cpc, currIndex, ascRangeEnds,
              weightsPrefixSum, error>>
fieldVars == <<_items, _ascRangeEnds, _lastRangeEnd>>
callVars == <<spc, pointInRange, rangeIndex, left, right, sampled, iterations>>
vars == <<ctorVars, fieldVars, callVars>>

\* ------------------------------------------------------------------ errors
\* An Error is its message: the template literal that built it and the
\* numbers interpolated into it, in order.
NoError == [message |-> "none", interpolated |-> <<>>]
ZeroItemsError == [message |-> "ZeroItems", interpolated |-> <<>>]
LengthMismatchError(n, m) ==
    [message |-> "LengthMismatch", interpolated |-> <<Fin(n), Fin(m)>>]
\* Variant of NonPositiveWeightError: the running prefix sum is interpolated
\* instead of the weight.
NonPositiveWeightErrorOfSum(weight) ==
    [message |-> "NonPositiveWeight", interpolated |-> <<weightsPrefixSum>>]

NonPositiveWeightError(weight) ==
    [message |-> "NonPositiveWeight", interpolated |-> <<weight>>]

\* ------------------------------------------------------------- constructor
Init ==
    /\ items \in ItemLists
    /\ respectiveWeights \in WeightLists
    /\ cpc = "new"
    /\ currIndex = 0
    /\ ascRangeEnds = <<>>
    /\ weightsPrefixSum = Zero
    /\ error = NoError
    /\ _items = <<>>
    /\ _ascRangeEnds = <<>>
    /\ _lastRangeEnd = Undefined
    /\ spc = [c \in Callers |-> "idle"]
    /\ pointInRange = [c \in Callers |-> Zero]
    /\ rangeIndex = [c \in Callers |-> 0]
    /\ left = [c \in Callers |-> 0]
    /\ right = [c \in Callers |-> 0]
    /\ sampled = [c \in Callers |-> "undefined"]
    /\ iterations = [c \in Callers |-> 0]

\* throw: the constructor ends without assigning any field.
Throw(e) ==
    /\ cpc' = "thrown"
    /\ error' = e
    /\ UNCHANGED <<items, respectiveWeights, currIndex, ascRangeEnds,
                   weightsPrefixSum, fieldVars, callVars>>

\* What CtorValidate does when both length checks pass.
EnterLoop ==
    /\ cpc' = "loop"
    /\ ascRangeEnds' = <<>>
    /\ weightsPrefixSum' = Zero
    /\ currIndex' = 0
    /\ UNCHANGED <<items, respectiveWeights, error, fieldVars, callVars>>

\* Variant of CtorValidate: the zero-items check is missing.
CtorValidateNoEmptyCheck ==
    /\ cpc = "new"
    /\ IF Len(items) # Len(respectiveWeights)
         THEN Throw(LengthMismatchError(Len(items), Len(respectiveWeights)))
       ELSE EnterLoop

\* Variant of CtorValidate: only too few weights count as a mismatch.
CtorValidateTooFewOnly ==
    /\ cpc = "new"
    /\ IF Len(items) = 0
         THEN Throw(ZeroItemsError)
       ELSE IF Len(items) > Len(respectiveWeights)
         THEN Throw(LengthMismatchError(Len(items), Len(respectiveWeights)))
       ELSE EnterLoop

\* Variant of CtorValidate: the length-mismatch check comes first.
CtorValidateMismatchFirst ==
    /\ cpc = "new"
    /\ IF Len(items) # Len(respectiveWeights)
         THEN Throw(LengthMismatchError(Len(items), Len(respectiveWeights)))
       ELSE IF Len(items) = 0
         THEN Throw(ZeroItemsError)
       ELSE EnterLoop

\* The two length checks and the initialisation of the locals.
CtorValidate ==
    /\ cpc = "new"
    /\ IF Len(items) = 0
         THEN Throw(ZeroItemsError)
       ELSE IF Len(items) # Len(respectiveWeights)
         THEN Throw(LengthMismatchError(Len(items), Len(respectiveWeights)))
       ELSE EnterLoop

\* Variant of CtorLoop: the table is built in the field this._ascRangeEnds
\* directly, one push per iteration.
CtorLoopIntoField ==
    /\ cpc = "loop"
    /\ currIndex < Len(respectiveWeights)
    /\ LET weight == respectiveWeights[currIndex + 1] IN
         IF Leq(weight, Zero)
           THEN Throw(NonPositiveWeightError(weight))
         ELSE /\ weightsPrefixSum' = Add(weightsPrefixSum, weight)
              /\ ascRangeEnds' = Append(ascRangeEnds, Add(weightsPrefixSum, weight))
              /\ _ascRangeEnds' = Append(ascRangeEnds, Add(weightsPrefixSum, weight))
              /\ currIndex' = currIndex + 1
              /\ UNCHANGED <<items, respectiveWeights, cpc, error, _items,
                             _lastRangeEnd, callVars>>

\* One iteration of `for (const weight of respectiveWeights)`.
CtorLoop ==
    /\ cpc = "loop"
    /\ currIndex < Len(respectiveWeights)
    /\ LET weight == respectiveWeights[currIndex + 1] IN
         IF Leq(weight, Zero)
           THEN Throw(NonPositiveWeightError(weight))
         ELSE /\ weightsPrefixSum' = Add(weightsPrefixSum, weight)
              /\ ascRangeEnds' = Append(ascRangeEnds, Add(weightsPrefixSum, weight))
              /\ currIndex' = currIndex + 1
              /\ UNCHANGED <<items, respectiveWeights, cpc, error, fieldVars, callVars>>

\* The loop is exhausted: the three fields are assigned.
CtorAssign ==
    /\ cpc = "loop"
    /\ currIndex = Len(respectiveWeights)
    /\ _items' = items
    /\ _ascRangeEnds' = ascRangeEnds
    /\ _lastRangeEnd' = weightsPrefixSum
    /\ cpc' = "ready"
    /\ UNCHANGED <<items, respectiveWeights, currIndex, ascRangeEnds,
                   weightsPrefixSum, error, callVars>>

\* ------------------------------------------------------------------ sample
\* The values Math.random() * total can take, Math.random() being in [0, 1):
\* every grid point of [0, total) for a finite total; 0 * Infinity is NaN
\* and u * Infinity is Infinity for u > 0; anything times NaN is NaN.
RandomPoints(total) ==
    IF IsNaN(total) THEN {NaN}
    ELSE IF total.k = "inf" THEN {NaN, total}
    ELSE IF total.v > 0 THEN {Fin(p) : p \in 0..(total.v - 1)}
    ELSE {Fin(p) : p \in (total.v + 1)..0}

\* Variant of Mid: the window is probed at its left end (a linear scan).
MidAtLeft(l, r) == l

\* Math.floor((left + right) / 2)
Mid(l, r) == (l + r) \div 2

\* Variant of SampleCall: the candidate index starts at the last index.
SampleCallFromLastIndex(c) ==
    /\ cpc = "ready"
    /\ spc[c] \in {"idle", "returned"}
    /\ \E point \in RandomPoints(_lastRangeEnd) :
         pointInRange' = [pointInRange EXCEPT ![c] = point]
    /\ rangeIndex' = [rangeIndex EXCEPT ![c] = Len(_ascRangeEnds) - 1]
    /\ left' = [left EXCEPT ![c] = 0]
    /\ right' = [right EXCEPT ![c] = Len(_ascRangeEnds) - 1]
    /\ spc' = [spc EXCEPT ![c] = "search"]
    /\ iterations' = [iterations EXCEPT ![c] = 0]
    /\ UNCHANGED <<ctorVars, fieldVars, sampled>>

\* Variant of SampleCall: the candidate index starts at -1 ("not found").
SampleCallFromMinusOne(c) ==
    /\ cpc = "ready"
    /\ spc[c] \in {"idle", "returned"}
    /\ \E point \in RandomPoints(_lastRangeEnd) :
         pointInRange' = [pointInRange EXCEPT ![c] = point]
    /\ rangeIndex' = [rangeIndex EXCEPT ![c] = -1]
    /\ left' = [left EXCEPT ![c] = 0]
    /\ right' = [right EXCEPT ![c] = Len(_ascRangeEnds) - 1]
    /\ spc' = [spc EXCEPT ![c] = "search"]
    /\ iterations' = [iterations EXCEPT ![c] = 0]
    /\ UNCHANGED <<ctorVars, fieldVars, sampled>>

\* _findCorrespondingRangeIndex run from the locals (idx, l, r) to its end
\* without interruption.
RECURSIVE SearchFrom(_, _, _, _, _)
SearchFrom(table, point, idx, l, r) ==
    IF l > r THEN idx
    ELSE LET mid == Mid(l, r) IN
         IF Lt(point, ReadNumber(table, mid))
           THEN SearchFrom(table, point, mid, l, mid - 1)
           ELSE SearchFrom(table, point, idx, mid + 1, r)

\* _findCorrespondingRangeIndex(pointInRange) as one uninterrupted call.
FindCorrespondingRangeIndex(table, point) ==
    SearchFrom(table, point, 0, 0, Len(table) - 1)

\* sample() draws the point and enters _findCorrespondingRangeIndex.
SampleCall(c) ==
    /\ cpc = "ready"
    /\ spc[c] \in {"idle", "returned"}
    /\ \E point \in RandomPoints(_lastRangeEnd) :
         pointInRange' = [pointInRange EXCEPT ![c] = point]
    /\ rangeIndex' = [rangeIndex EXCEPT ![c] = 0]
    /\ left' = [left EXCEPT ![c] = 0]
    /\ right' = [right EXCEPT ![c] = Len(_ascRangeEnds) - 1]
    /\ spc' = [spc EXCEPT ![c] = "search"]
    /\ iterations' = [iterations EXCEPT ![c] = 0]
    /\ UNCHANGED <<ctorVars, fieldVars, sampled>>

\* Variant of SearchStep: rangeIndex, left and right are kept on the
\* instance, so the step of one call overwrites those of every running call.
SearchStepOnSharedLocals(c) ==
    /\ spc[c] = "search"
    /\ left[c] <= right[c]
    /\ LET mid == Mid(left[c], right[c])
           running == {d \in Callers : spc[d] = "search"}
       IN
         IF Lt(pointInRange[c], ReadNumber(_ascRangeEnds, mid))
           THEN /\ rangeIndex' = [d \in Callers |->
                                    IF d \in running THEN mid ELSE rangeIndex[d]]
                /\ right' = [d \in Callers |->
                               IF d \in running THEN mid - 1 ELSE right[d]]
                /\ left' = [d \in Callers |->
                              IF d \in running THEN left[c] ELSE left[d]]
           ELSE /\ left' = [d \in Callers |->
                              IF d \in running THEN mid + 1 ELSE left[d]]
                /\ right' = [d \in Callers |->
                               IF d \in running THEN right[c] ELSE right[d]]
                /\ rangeIndex' = [d \in Callers |->
                                    IF d \in running THEN rangeIndex[c]
                                    ELSE rangeIndex[d]]
    /\ iterations' = [iterations EXCEPT ![c] = iterations[c] + 1]
    /\ UNCHANGED <<ctorVars, fieldVars, spc, pointInRange, sampled>>

\* One iteration of `while (left <= right)`.
SearchStep(c) ==
    /\ spc[c] = "search"
    /\ left[c] <= right[c]
    /\ LET mid == Mid(left[c], right[c]) IN
         IF Lt(pointInRange[c], ReadNumber(_ascRangeEnds, mid))
           THEN /\ rangeIndex' = [rangeIndex EXCEPT ![c] = mid]
                /\ right' = [right EXCEPT ![c] = mid - 1]
                /\ UNCHANGED left
           ELSE /\ left' = [left EXCEPT ![c] = mid + 1]
                /\ UNCHANGED <<rangeIndex, right>>
    /\ iterations' = [iterations EXCEPT ![c] = iterations[c] + 1]
    /\ UNCHANGED <<ctorVars, fieldVars, spc, pointInRange, sampled>>

\* Variant of SampleReturn: the item at `left` is returned.
SampleReturnAtLeft(c) ==
    /\ spc[c] = "search"
    /\ left[c] > right[c]
    /\ sampled' = [sampled EXCEPT ![c] = ReadItem(_items, left[c])]
    /\ spc' = [spc EXCEPT ![c] = "returned"]
    /\ UNCHANGED <<ctorVars, fieldVars, pointInRange, rangeIndex, left, right,
                   iterations>>

\* Variant of SampleReturn: the returned item is taken out of this._items
\* (sampling without replacement).
SampleReturnAndRemove(c) ==
    /\ spc[c] = "search"
    /\ left[c] > right[c]
    /\ sampled' = [sampled EXCEPT ![c] = ReadItem(_items, rangeIndex[c])]
    /\ _items' = [i \in 1..(Len(_items) - 1) |->
                    IF i <= rangeIndex[c] THEN _items[i] ELSE _items[i + 1]]
    /\ spc' = [spc EXCEPT ![c] = "returned"]
    /\ UNCHANGED <<ctorVars, _ascRangeEnds, _lastRangeEnd, pointInRange,
                   rangeIndex, left, right, iterations>>

\* The loop is over: sample() returns this._items[rangeIndex].
SampleReturn(c) ==
    /\ spc[c] = "search"
    /\ left[c] > right[c]
    /\ sampled' = [sampled EXCEPT ![c] = ReadItem(_items, rangeIndex[c])]
    /\ spc' = [spc EXCEPT ![c] = "returned"]
    /\ UNCHANGED <<ctorVars, fieldVars, pointInRange, rangeIndex, left, right,
                   iterations>>

Next ==
    \/ CtorValidate
    \/ CtorLoop
    \/ CtorAssign
    \/ \E c \in Callers : SampleCall(c)
    \/ \E c \in Callers : SearchStep(c)
    \/ \E c \in Callers : SampleReturn(c)

Spec == Init /\ [][Next]_vars

\* ------------------------------------------------- vocabulary of the claims
\* The claims' own reading of the inputs, written without Lt, Leq and Add.
n == Len(items)
m == Len(respectiveWeights)
IsNonPositive(w) == (w.k = "fin" /\ w.v <= 0) \/ w = NegInf
IsNonFinite(w) == w.k # "fin"
IsValidWeight(w) == w.k = "fin" /\ w.v > 0
NonPositiveAt == {i \in 0..(m - 1) : IsNonPositive(respectiveWeights[i + 1])}
NonFiniteAt == {i \in 0..(m - 1) : IsNonFinite(respectiveWeights[i + 1])}
FirstNonPositive == CHOOSE i \in NonPositiveAt : \A j \in NonPositiveAt : i <= j
AllWeightsValid == \A i \in 1..m : IsValidWeight(respectiveWeights[i])
ItemsOf(arr) == {arr[i] : i \in 1..Len(arr)}

\* w[0] + ... + w[i] of a list of finite weights, as an integer; 0 for i = -1.
RECURSIVE SumThrough(_, _)
SumThrough(w, i) == IF i < 0 THEN 0 ELSE SumThrough(w, i - 1) + w[i + 1].v

\* ---------------------------------------------------------------------- C1
\* C1: whenever sample() has returned, the index it used is one of
\* 0..n-1 and the value returned is items[index], one of the original items.
C1_Coverage ==
    \A c \in Callers :
        spc[c] = "returned" =>
            /\ rangeIndex[c] \in 0..(n - 1)
            /\ sampled[c] = items[rangeIndex[c] + 1]
            /\ sampled[c] \in ItemsOf(items)

C1_Witness ==
    \E c \in Callers :
        /\ spc[c] = "returned"
        /\ n >= 2
        /\ rangeIndex[c] >= 1
        /\ sampled[c] = items[rangeIndex[c] + 1]

\* ---------------------------------------------------------------------- C2
\* C2: for valid weights and a point with 0 <= point < total, the index the
\* search returns is the smallest i with point < boundary[i], that is
\* boundary[i-1] <= point < boundary[i]; a point equal to boundary[i]
\* resolves to i + 1.
C2_LeftmostIndex ==
    \A c \in Callers :
        (/\ spc[c] = "returned"
         /\ AllWeightsValid
         /\ IsFinite(pointInRange[c])
         /\ 0 <= pointInRange[c].v
         /\ pointInRange[c].v < SumThrough(respectiveWeights, n - 1))
        => /\ rangeIndex[c] \in 0..(n - 1)
           /\ SumThrough(respectiveWeights, rangeIndex[c] - 1) <= pointInRange[c].v
           /\ pointInRange[c].v < SumThrough(respectiveWeights, rangeIndex[c])
           /\ \A i \in 0..(n - 1) :
                pointInRange[c].v < SumThrough(respectiveWeights, i)
                    => rangeIndex[c] <= i

\* A point exactly on boundary[i] has been resolved to item i + 1.
C2_Witness ==
    \E c \in Callers :
        /\ spc[c] = "returned"
        /\ AllWeightsValid
        /\ IsFinite(pointInRange[c])
        /\ rangeIndex[c] >= 1
        /\ pointInRange[c].v = SumThrough(respectiveWeights, rangeIndex[c] - 1)
        /\ sampled[c] = items[rangeIndex[c] + 1]

\* ---------------------------------------------------------------------- C3
\* C3: after successful construction the boundary table has n entries,
\* boundary[i] is w[0] + ... + w[i], the table is strictly increasing, and
\* the cached total is boundary[n-1]; the table is determined by the weights.
RECURSIVE PrefixSums(_, _)
PrefixSums(w, i) ==
    IF i < 0 THEN Zero ELSE Add(PrefixSums(w, i - 1), w[i + 1])

C3_BoundaryTable ==
    cpc = "ready" =>
        /\ Len(_ascRangeEnds) = n
        /\ \A i \in 0..(n - 1) :
             _ascRangeEnds[i + 1] = PrefixSums(respectiveWeights, i)
        /\ \A i \in 0..(n - 2) :
             /\ IsFinite(_ascRangeEnds[i + 1])
             /\ IsFinite(_ascRangeEnds[i + 2])
             /\ _ascRangeEnds[i + 1].v < _ascRangeEnds[i + 2].v
        /\ _lastRangeEnd = _ascRangeEnds[n]

\* ---------------------------------------------------------------------- C4
\* C4: the point that sample() resolved to item i lies in the half-open
\* interval [boundary[i-1], boundary[i]), whose length is weight[i]; the
\* intervals are disjoint and cover [0, total), so that exactly weight[i]
\* grid points of [0, total) resolve to item i.
LowerEnd(i) == IF i = 0 THEN Zero ELSE _ascRangeEnds[i]
UpperEnd(i) == _ascRangeEnds[i + 1]

C4_HalfOpenIntervals ==
    /\ cpc = "ready" =>
         \A i \in 0..(n - 1) :
            /\ IsFinite(LowerEnd(i))
            /\ IsFinite(UpperEnd(i))
            /\ IsFinite(respectiveWeights[i + 1])
            /\ UpperEnd(i).v - LowerEnd(i).v = respectiveWeights[i + 1].v
            /\ Cardinality(LowerEnd(i).v .. (UpperEnd(i).v - 1))
                 = respectiveWeights[i + 1].v
    /\ \A c \in Callers :
         spc[c] = "returned" =>
            /\ IsFinite(pointInRange[c])
            /\ IsFinite(LowerEnd(rangeIndex[c]))
            /\ IsFinite(UpperEnd(rangeIndex[c]))
            /\ LowerEnd(rangeIndex[c]).v <= pointInRange[c].v
            /\ pointInRange[c].v < UpperEnd(rangeIndex[c]).v

\* ---------------------------------------------------------------------- C5
\* C5: with an empty items list the constructor throws the zero-items
\* error, whatever the weights list is.
C5_EmptyInput ==
    (n = 0 /\ cpc # "new") => (cpc = "thrown" /\ error = ZeroItemsError)

C5_Witness ==
    /\ n = 0
    /\ m >= 2
    /\ NonPositiveAt # {}
    /\ cpc = "thrown"
    /\ error.message = "ZeroItems"

\* ---------------------------------------------------------------------- C6
\* C6: with n >= 1 items and m # n weights the constructor throws the
\* length-mismatch error, whatever the weight values are.
C6_LengthMismatch ==
    (n >= 1 /\ n # m /\ cpc # "new") =>
        /\ cpc = "thrown"
        /\ error.message = "LengthMismatch"
        /\ error.interpolated = <<Fin(n), Fin(m)>>

C6_Witness ==
    /\ n >= 1
    /\ m > n
    /\ NonPositiveAt # {}
    /\ cpc = "thrown"
    /\ error.message = "LengthMismatch"

\* ---------------------------------------------------------------------- C7
\* C7: with n >= 1 items and n weights of which at least one is <= 0, the
\* constructor never completes: the loop does not get past the first such
\* weight, and the error thrown is the non-positive-weight error.
C7_NonPositiveWeight ==
    (n >= 1 /\ n = m /\ NonPositiveAt # {}) =>
        /\ cpc \in {"new", "loop", "thrown"}
        /\ cpc = "loop" => currIndex <= FirstNonPositive
        /\ cpc = "thrown" => error.message = "NonPositiveWeight"

C7_Witness ==
    /\ n = MaxItems
    /\ n = m
    /\ NonPositiveAt = {n - 1}
    /\ respectiveWeights[n] = Zero
    /\ cpc = "thrown"
    /\ error.message = "NonPositiveWeight"

\* ---------------------------------------------------------------------- C8
\* C8: a NaN, +Infinity or -Infinity weight makes the constructor throw the
\* non-positive-weight error, and no sampler whose boundary table holds a
\* non-finite value is ever created.
C8_NonFiniteWeight ==
    /\ (n >= 1 /\ n = m /\ NonFiniteAt # {}) =>
          /\ cpc \in {"new", "loop", "thrown"}
          /\ cpc = "thrown" => error.message = "NonPositiveWeight"
    /\ cpc = "ready" =>
          \A i \in 1..Len(_ascRangeEnds) : IsFinite(_ascRangeEnds[i])

\* ---------------------------------------------------------------------- C9
\* C9: the checks run in the order zero items, length mismatch,
\* non-positive weight; the error thrown is that of the first check in this
\* order that the input fails, the three messages differ, and an input that
\* fails none of the checks is not rejected.
FirstFailingCheck ==
    IF n = 0 THEN "ZeroItems"
    ELSE IF n # m THEN "LengthMismatch"
    ELSE IF NonPositiveAt # {} THEN "NonPositiveWeight"
    ELSE "none"

C9_ValidationOrder ==
    /\ cpc = "thrown" => (error.message = FirstFailingCheck /\ error.message # "none")
    /\ cpc = "ready" => (FirstFailingCheck = "none" /\ error = NoError)
    /\ ZeroItemsError.message # LengthMismatchError(n, m).message
    /\ ZeroItemsError.message # NonPositiveWeightError(Zero).message
    /\ LengthMismatchError(n, m).message # NonPositiveWeightError(Zero).message

\* Unequal lengths together with a non-positive first weight: the
\* length-mismatch error is the one reported.
C9_Witness ==
    /\ n >= 1
    /\ n # m
    /\ m >= 1
    /\ IsNonPositive(respectiveWeights[1])
    /\ cpc = "thrown"
    /\ error.message = "LengthMismatch"

\* --------------------------------------------------------------------- C10
\* C10 as stated: the non-positive-weight error carries both the index and
\* the value of the lowest-index offending weight.
C10_CarriesIndexAndValue ==
    (cpc = "thrown" /\ error.message = "NonPositiveWeight") =>
        \E a, b \in DOMAIN error.interpolated :
            /\ a # b
            /\ error.interpolated[a] = Fin(FirstNonPositive)
            /\ error.interpolated[b] = respectiveWeights[FirstNonPositive + 1]

\* C10 amended: the non-positive-weight error carries the value of the
\* lowest-index offending weight and nothing else; the index is not in it.
C10_CarriesValueOnly ==
    (cpc = "thrown" /\ error.message = "NonPositiveWeight") =>
        error.interpolated = <<respectiveWeights[FirstNonPositive + 1]>>

\* Two offenders with different values: the first one's value is reported.
C10_Witness ==
    /\ cpc = "thrown"
    /\ error.message = "NonPositiveWeight"
    /\ Cardinality(NonPositiveAt) >= 2
    /\ FirstNonPositive >= 1
    /\ \E j \in NonPositiveAt :
         respectiveWeights[j + 1] # respectiveWeights[FirstNonPositive + 1]
    /\ error.interpolated = <<respectiveWeights[FirstNonPositive + 1]>>

\* --------------------------------------------------------------------- C11
\* C11: as long as the constructor has not completed, and for ever once it
\* has thrown, no field of the instance is assigned and no sample() call is
\* running or has run; a sample() call only ever runs on an instance whose
\* three fields are all assigned.
FieldsUnassigned ==
    /\ _items = <<>>
    /\ _ascRangeEnds = <<>>
    /\ _lastRangeEnd = Undefined

FieldsAssigned ==
    /\ Len(_items) = n
    /\ Len(_ascRangeEnds) = n
    /\ n >= 1
    /\ _lastRangeEnd # Undefined

C11_NoPartialInstance ==
    /\ cpc # "ready" => (FieldsUnassigned /\ \A c \in Callers : spc[c] = "idle")
    /\ cpc = "thrown" => error # NoError
    /\ \A c \in Callers : spc[c] # "idle" => (cpc = "ready" /\ FieldsAssigned)

\* A non-positive weight found after two weights were already accumulated.
C11_Witness ==
    /\ cpc = "thrown"
    /\ error.message = "NonPositiveWeight"
    /\ currIndex >= 2
    /\ Len(ascRangeEnds) >= 2
    /\ FieldsUnassigned

\* --------------------------------------------------------------------- C12
\* C12: once the sampler is built no step changes its items, its boundary
\* table or its total, which stay what the constructor computed; a caller
\* that is not inside a call can always start one; and two calls that drew
\* the same point returned the same item, whatever calls came before.
C12_SampleLeavesStateUnchanged ==
    /\ [](cpc = "ready" =>
            /\ _items = items
            /\ _ascRangeEnds = ascRangeEnds
            /\ _lastRangeEnd = weightsPrefixSum
            /\ \A c \in Callers : spc[c] # "search" => ENABLED SampleCall(c)
            /\ \A c, d \in Callers :
                 (/\ spc[c] = "returned"
                  /\ spc[d] = "returned"
                  /\ pointInRange[c] = pointInRange[d])
                 => (rangeIndex[c] = rangeIndex[d] /\ sampled[c] = sampled[d]))
    /\ [][cpc = "ready" => UNCHANGED <<fieldVars, items, respectiveWeights>>]_vars

\* A caller whose earlier call returned the first item is in a later call
\* that has recorded another index, on the state the constructor left.
C12_Witness ==
    \E c \in Callers :
        /\ spc[c] = "search"
        /\ sampled[c] = items[1]
        /\ iterations[c] >= 1
        /\ rangeIndex[c] >= 1
        /\ _items = items
        /\ _ascRangeEnds = ascRangeEnds

\* --------------------------------------------------------------------- C13
\* point >= total of JavaScript, for the point of caller c.
PointAtOrBeyondTotal(c) ==
    \/ /\ IsFinite(pointInRange[c])
       /\ IsFinite(_lastRangeEnd)
       /\ pointInRange[c].v >= _lastRangeEnd.v
    \/ /\ pointInRange[c] = PosInf
       /\ _lastRangeEnd.k \in {"fin", "inf"}
    \/ /\ IsFinite(pointInRange[c])
       /\ _lastRangeEnd = NegInf

C14_SingleItem ==
    \A c \in Callers :
        (n = 1 /\ spc[c] = "returned") =>
            (rangeIndex[c] = 0 /\ sampled[c] = items[1])

\* The single item returned for a point that is not below the total.
C14_Witness ==
    \E c \in Callers :
        /\ n = 1
        /\ spc[c] = "returned"
        /\ PointAtOrBeyondTotal(c)
        /\ sampled[c] = items[1]

\* The single item returned for a point inside [0, total).
C14_WitnessInRange ==
    \E c \in Callers :
        /\ n = 1
        /\ spc[c] = "returned"
        /\ IsFinite(pointInRange[c])
        /\ IsFinite(_lastRangeEnd)
        /\ pointInRange[c].v = _lastRangeEnd.v - 1
        /\ pointInRange[c].v >= 1
        /\ sampled[c] = items[1]

\* --------------------------------------------------------------------- C15
\* C15: with the steps of several calls interleaved in any order, every
\* call is at each step where the same call run alone would be, returns
\* the item that call run alone returns for its point, and reads only the
\* complete table the constructor built.
C15_InterleavedCallsAgreeWithSolo ==
    \A c \in Callers :
        /\ spc[c] = "search" =>
             /\ FieldsAssigned
             /\ _ascRangeEnds = ascRangeEnds
             /\ _items = items
             /\ SearchFrom(_ascRangeEnds, pointInRange[c],
                           rangeIndex[c], left[c], right[c])
                  = FindCorrespondingRangeIndex(_ascRangeEnds, pointInRange[c])
        /\ spc[c] = "returned" =>
             /\ _ascRangeEnds = ascRangeEnds
             /\ _items = items
             /\ rangeIndex[c]
                  = FindCorrespondingRangeIndex(_ascRangeEnds, pointInRange[c])
             /\ sampled[c]
                  = ReadItem(_items,
                       FindCorrespondingRangeIndex(_ascRangeEnds, pointInRange[c]))

\* Two calls are inside the search at once, both past their first
\* iteration, with different points and different candidates.
C15_Witness ==
    \E c, d \in Callers :
        /\ c # d
        /\ spc[c] = "search"
        /\ spc[d] = "search"
        /\ iterations[c] >= 1
        /\ iterations[d] >= 1
        /\ left[c] <= right[c]
        /\ pointInRange[c] # pointInRange[d]
        /\ rangeIndex[c] # rangeIndex[d]

\* --------------------------------------------------------------------- C16
RECURSIVE FloorLog2(_)
FloorLog2(k) == IF k <= 1 THEN 0 ELSE 1 + FloorLog2(k \div 2)

\* C16: a search makes at most floor(log2(n)) + 1 loop iterations; a call
\* inside the search is never stuck (its next iteration or its return is
\* possible); and each iteration strictly shrinks the window [left, right].
C16_SearchTerminates ==
    /\ [](\A c \in Callers :
            /\ spc[c] # "idle" => iterations[c] <= FloorLog2(n) + 1
            /\ spc[c] = "search" =>
                 (ENABLED SearchStep(c) \/ ENABLED SampleReturn(c)))
    /\ [][\A c \in Callers :
            (spc[c] = "search" /\ iterations'[c] = iterations[c] + 1) =>
                /\ left[c] <= left'[c]
                /\ right'[c] <= right[c]
                /\ right'[c] - left'[c] < right[c] - left[c]]_vars

\* A search over MaxItems items that used all floor(log2(n)) + 1 iterations.
C16_Witness ==
    \E c \in Callers :
        /\ n = MaxItems
        /\ spc[c] = "returned"
        /\ iterations[c] = FloorLog2(n) + 1
        /\ iterations[c] >= 2

\* --------------------------------------------------------------------- C17
\* a <= b and a < b on the extended reals; false when a or b is no number.
AtMost(a, b) ==
    /\ a.k \in {"fin", "inf"}
    /\ b.k \in {"fin", "inf"}
    /\ \/ a.k = "fin" /\ b.k = "fin" /\ a.v <= b.v
       \/ a.k = "inf" /\ a.v < 0
       \/ b.k = "inf" /\ b.v > 0
Below(a, b) == AtMost(a, b) /\ a # b

\* A candidate has been recorded exactly when `right` has moved.
CandidateRecorded(c) == right[c] < n - 1

\* C17: at every iteration of the search 0 <= left, right <= n-1 and
\* left <= right + 1; the probed index mid lies in left..right; every
\* boundary below left is <= point; every boundary above right is > point;
\* and once a candidate is recorded rangeIndex = right + 1.
C17_LoopInvariant ==
    \A c \in Callers :
        spc[c] = "search" =>
            /\ 0 <= left[c]
            /\ right[c] <= n - 1
            /\ left[c] <= right[c] + 1
            /\ left[c] <= right[c] =>
                 /\ left[c] <= Mid(left[c], right[c])
                 /\ Mid(left[c], right[c]) <= right[c]
                 /\ Mid(left[c], right[c]) \in 0..(Len(_ascRangeEnds) - 1)
            /\ \A i \in 0..(left[c] - 1) :
                 AtMost(_ascRangeEnds[i + 1], pointInRange[c])
            /\ \A i \in (right[c] + 1)..(n - 1) :
                 Below(pointInRange[c], _ascRangeEnds[i + 1])
            /\ CandidateRecorded(c) => rangeIndex[c] = right[c] + 1

TypeOK ==
    /\ cpc \in {"new", "loop", "ready", "thrown"}
    /\ \A c \in Callers : spc[c] \in {"idle", "search", "returned"}
====
